---- MODULE Spec2Model ----
(***************************************************************************)
(* Relay between a browser client and the OpenAI Realtime API              *)
(* (src/server.js, second revision, lines 598-1158).                       *)
(*                                                                         *)
(* One relay session per client connection: the async 'connection'        *)
(* handler awaits an ephemeral token, opens the upstream WebSocket and     *)
(* registers the handlers of both sockets.  Each action below is one       *)
(* callback of the Node event loop, run to completion.                     *)
(***************************************************************************)
EXTENDS Integers, Sequences, FiniteSets, TLC

\* ---------------------------------------------------------------- bounds
\* Client messages that arrive on one session.
MaxClientMsgs == 3

\* ------------------------------------------------------------- constants
\* setTimeout delays of the greeting trigger and of the settle delay.
GreetingDelay == 500
SettleDelay == 200
ContinueDelay == 100
MaxToolCalls == 2

Sessions == {1, 2}

\* The revisions of the server in the repository that are modelled: "server" is
\* src/server.js (lines 598-1158), "websearch" the tool-enabled revision
\* src/unnamed/part_004 (lines 1220-1898), and "websearch_simple" the simplified
\* tool-enabled revision src/unnamed/part_004 (lines 603-1219), and
\* "attachment" the first revision in src/server.js (lines 1-597).
Revisions == {"server", "websearch", "websearch_simple", "attachment"}

VARIABLES
  revision,       \* which revision of the server is running
  process,        \* the Node process: "start" | "running" | "exited" | "crashed"
  exitCode,       \* its exit code, -1 while it has not ended
  searches,       \* per session: the tool invocations received, each with the
                  \* state of its performWebSearch promise
  pc,             \* per session: position of the async 'connection' handler
  clientSocket,   \* per session: readyState of the client socket
  openaiWs,       \* per session: "null" or readyState of the upstream socket
  isMuted,        \* per session flag (line 737)
  isReady,        \* per session flag (line 738)
  isResponding,   \* per session flag (line 739)
  messageQueue,   \* per session queue (line 740)
  timers,         \* per session: pending setTimeout callbacks, in creation order
  nClient,        \* per session: client messages arrived so far (arrival ids)
  pendingUpdates, \* upstream peer: session.update frames not yet answered
  upActive,       \* upstream peer: a response is being generated
  routed,         \* observation: ids handed to handleClientMessage, in order
  preReady,       \* observation: ids of non-audio messages arrived before the first READY
  everReady,      \* observation: isReady has been set once
  responseOpen,   \* observation: response.created handled, and since then no
                  \* response.done, response.cancelled, error or upstream close
  upFirst,        \* observation: type of the first frame sent upstream
  inFlight,       \* observation: response.create frames sent and not yet finished
  clIn,           \* observation: the message the last callback was given
  upOut,          \* observation: frames the last callback sent upstream
  upTried,        \* observation: frames the last callback passed to
                  \* openaiWs.send, whether the socket took them or not
  clOut,          \* observation: notifications it delivered to the client
  toolLog,        \* observation, per session: the tool-result items and the
                  \* continuation triggers sent upstream, in order
  greetings       \* observation, per session: greeting triggers sent upstream

progVars == <<revision, process, exitCode, searches, pc,
              clientSocket, openaiWs, isMuted, isReady, isResponding,
              messageQueue, timers>>
envVars == <<nClient, pendingUpdates, upActive>>
obsVars == <<routed, preReady, everReady, responseOpen, upFirst, inFlight,
            clIn, upOut, upTried, clOut, toolLog, greetings>>
vars == <<progVars, envVars, obsVars>>

\* ------------------------------------------------------------ data model
NoFiles == <<>>
\* file.text present
FileA == [name |-> "a.txt", text |-> "AAA", content |-> "", url |-> ""]
\* no name, file.content present
FileB == [name |-> "", text |-> "", content |-> "BBB", url |-> ""]
\* only a url
FileU == [name |-> "u.pdf", text |-> "", content |-> "", url |-> "http://u"]
\* nothing extractable
FileN == [name |-> "n.bin", text |-> "", content |-> "", url |-> ""]

\* A parsed client message.  text = "" is an absent or empty text; textIsString
\* = FALSE is a truthy non-string text (a JSON number).
Msg(type, text, textIsString, files, data, language) ==
  [id |-> 0, type |-> type, text |-> text, textIsString |-> textIsString,
   files |-> files, data |-> data, language |-> language]

Mute == Msg("mute", "", TRUE, NoFiles, "", "")
Unmute == Msg("unmute", "", TRUE, NoFiles, "", "")
Text == Msg("text_message", "hi", TRUE, NoFiles, "", "")
TextFiles == Msg("text_message", "see", TRUE, <<FileA, FileB, FileU, FileN>>, "", "")
TextEmpty == Msg("text_message", "", TRUE, <<FileA>>, "", "")
TextNumber == Msg("text_message", "123", FALSE, NoFiles, "", "")
FileText == Msg("file_text", "doc", TRUE, NoFiles, "", "")
Audio == Msg("audio", "", TRUE, NoFiles, "AAAA", "")
Cancel == Msg("cancel", "", TRUE, NoFiles, "", "")
SetLanguage == Msg("set_language", "", TRUE, NoFiles, "", "fr")
Clear == Msg("clear", "", TRUE, NoFiles, "", "")
\* data that JSON.parse rejects
Malformed == Msg("<unparsable>", "", TRUE, NoFiles, "", "")

\* An attachment message of the first revision of src/server.js: its file is
\* given by a url, by content or text, or by base64 data; mimeType is "image",
\* "audio" or "" for what the prefix test of the handler sees.
Attachment(url, content, text, mimeType, base64) ==
  [id |-> 0, type |-> "attachment", text |-> text, textIsString |-> TRUE,
   files |-> NoFiles, data |-> "", language |-> "", url |-> url, content |-> content,
   mimeType |-> mimeType, base64 |-> base64]

AttachUrl == Attachment("http://u", "", "", "image", "")
AttachText == Attachment("", "", "TTT", "", "")
AttachBase64 == Attachment("", "", "", "image", "QUJD")
AttachEmpty == Attachment("", "", "", "", "")

AttachmentMsgs == {AttachUrl, AttachText, AttachBase64, AttachEmpty, Mute, TextFiles,
                   Audio}

ClientMsgs == {Mute, Unmute, Text, TextFiles, TextEmpty, TextNumber, FileText,
               Audio, Cancel, SetLanguage, Clear, Malformed}

\* An upstream event.
Ev(type, payload) == [type |-> type, payload |-> payload]

UpstreamEvents ==
  {Ev("session.updated", ""), Ev("input_audio_buffer.speech_started", ""),
   Ev("input_audio_buffer.speech_stopped", ""), Ev("response.audio.delta", "AAAA"),
   Ev("response.audio.delta", ""), Ev("response.created", ""), Ev("response.done", ""),
   Ev("response.cancelled", ""),
   Ev("conversation.item.input_audio_transcription.completed", "hello"),
   Ev("response.audio_transcript.done", "welcome"),
   Ev("error", "rate_limited"), Ev("error", ""), Ev("rate_limits.updated", "")}

\* A tool invocation of the upstream model (response.function_call_arguments.done):
\* the function name, its arguments as JSON text, and the id of the call.
ToolCall(name, arguments, call_id) ==
  [type |-> "response.function_call_arguments.done", payload |-> "", name |-> name,
   arguments |-> arguments, call_id |-> call_id]

ToolNames == {"web_search", "get_time"}
\* Arguments with a query, and arguments that are not JSON.
ToolArguments == {"{\"query\":\"q\"}", "{\"query\":"}

\* How performWebSearch settles: it resolves with the result of the search
\* endpoint, or, having caught its failure, with a fallback text (part_004 lines
\* 1329-1344); it never rejects.
SearchOutcomes == {"success", "failure"}

\* Outcomes of the HTTPS request of getRealtimeToken.
TokenOutcomes == {"ok", "no_secret", "bad_json", "http_error", "net_error", "timeout"}

\* ------------------------------------------------------ frames and notes
Frame(type) == [type |-> type]
ItemCreate(text) == [type |-> "conversation.item.create", text |-> text]
\* Mutant of AudioAppend: the frame does not carry the chunk.
AudioAppendEmpty(data) == [type |-> "input_audio_buffer.append", audio |-> ""]

AudioAppend(data) == [type |-> "input_audio_buffer.append", audio |-> data]
\* Mutant of SessionUpdate: the frame keeps the default language.
SessionUpdateDefault(language) == [type |-> "session.update", language |-> "en"]

SessionUpdate(language) == [type |-> "session.update", language |-> language]
\* item: the conversation item the trigger was scheduled for (none for the greeting).
ResponseCreate(why, item) == [type |-> "response.create", why |-> why, item |-> item]

\* The tool-result item of a call (part_004 lines 1628-1637).
FunctionOutput(call_id, output) ==
  [type |-> "conversation.item.create", call_id |-> call_id, output |-> output]

\* The frames of toolLog: tool-result items and continuation triggers.
IsToolFrame(f) ==
  \/ f.type = "conversation.item.create" /\ "call_id" \in DOMAIN f
  \/ f.type = "response.create" /\ f.why = "continue"

\* The greeting trigger among the frames sent upstream.
IsGreeting(f) == f.type = "response.create" /\ f.why = "greeting"

Note(type) == [type |-> type]
\* Mutant of MutedNote: the notification reports the flag as it was not set.
MutedNoteInverted(m) == [type |-> "muted", muted |-> ~m]

MutedNote(m) == [type |-> "muted", muted |-> m]
ErrorNote(message) == [type |-> "error", message |-> message]
AudioNote(data) == [type |-> "audio", data |-> data]
TranscriptNote(role, text, nfiles) ==
  [type |-> "transcript", role |-> role, text |-> text, files_attached |-> nfiles]
LanguageNote(language) == [type |-> "language_set", language |-> language]

\* ws: a send on a socket that is not OPEN is discarded.
Deliver(sock, notes) == IF sock = "OPEN" THEN notes ELSE <<>>

CountType(frames, type) == Cardinality({i \in 1..Len(frames) : frames[i].type = type})


\* ------------------------------------------------------ getRealtimeToken
\* The promise of getRealtimeToken: "resolve", "reject", or "throw" when the
\* 'end' callback throws outside the promise (JSON.parse of a malformed body of a
\* 200 response), which is an uncaught exception of the process.
getRealtimeToken(outcome) ==
  CASE outcome = "ok" -> "resolve"
    [] outcome = "no_secret" -> "reject"
    [] outcome = "http_error" -> "reject"
    [] outcome = "net_error" -> "reject"
    [] outcome = "timeout" -> "reject"
    [] outcome = "bad_json" -> "throw"

\* --------------------------------------------------- handleClientMessage
\* The text appended for one file (lines 967-976), as a sequence of tokens.  The
\* tool-enabled revision has no placeholder for a file with only a url
\* (part_004 lines 1759-1765).
FileSegment(file) ==
  IF file.text # "" \/ file.content # ""
  THEN <<"\n\n[Content from ", IF file.name # "" THEN file.name ELSE "File", "]:\n",
         IF file.text # "" THEN file.text ELSE file.content>>
  ELSE IF file.url # "" /\ revision = "server"
  THEN <<"\n\n[Note: I cannot access the file at ", file.url,
         ". Please describe what's in the file.]">>
  ELSE <<>>

RECURSIVE AppendFiles(_, _)
AppendFiles(fullText, files) ==
  IF files = <<>> THEN fullText
  ELSE AppendFiles(fullText \o FileSegment(Head(files)), Tail(files))

\* Mutant of FullText: the file loop is skipped.
FullTextNoFiles(m) == <<m.text>>

\* fullText of a text_message (lines 960-978).
FullText(m) == AppendFiles(<<m.text>>, m.files)

\* Mutant of TextTruthy: a message with files passes without a text.
TextOrFiles(m) == m.text # "" \/ m.files # <<>>

\* JavaScript truthiness of message.text.
TextTruthy(m) == m.text # ""

\* A pending setTimeout callback: the greeting trigger (line 813) or the settle
\* timer of the conversation item just created (lines 991, 1035).
GreetingTimer == [kind |-> "greeting", item |-> <<>>]
SettleTimer(item) == [kind |-> "settle", item |-> item]

\* Mutant of ForwardsAudio: audio is forwarded whatever the mute flag.
ForwardsAudioMuted(m, muted) == m.type = "audio" /\ m.data # ""

\* The condition of the audio branch (line 1050).
ForwardsAudio(m, muted) == m.type = "audio" /\ m.data # "" /\ ~muted

\* Mutant of CancelFrames: response.cancel is sent whatever isResponding.
CancelFramesAlways(responding) == <<Frame("response.cancel")>>

\* The frames of the cancel branch (lines 1061-1065).
CancelFrames(responding) == IF responding THEN <<Frame("response.cancel")>> ELSE <<>>

\* handleClientMessage of the simplified tool-enabled revision (part_004 lines
\* 1086-1169): audio, text_message without files, warning or echo, mute and
\* unmute without notification, set_language without notification.
HandleClientMessageSimple(m, st, ws, responding) ==
  IF ws # "OPEN" THEN st
  ELSE IF ForwardsAudio(m, st.isMuted)
  THEN [st EXCEPT !.up = Append(@, AudioAppend(m.data))]
  ELSE IF m.type = "text_message" /\ TextTruthy(m)
  THEN IF responding THEN st
       ELSE [st EXCEPT
               !.up = @ \o <<Frame("input_audio_buffer.clear"), ItemCreate(<<m.text>>)>>,
               !.tm = Append(@, SettleTimer(<<m.text>>))]
  ELSE IF m.type = "mute" THEN [st EXCEPT !.isMuted = TRUE]
  ELSE IF m.type = "unmute" THEN [st EXCEPT !.isMuted = FALSE]
  ELSE IF m.type = "set_language" /\ m.language # ""
  THEN [st EXCEPT !.up = Append(@, SessionUpdate(m.language))]
  ELSE st

\* handleClientMessage (lines 921-1105; part_004 lines 1718-1850, which has no
\* file_text branch) on the running effects st of the current
\* callback: st.isMuted, frames st.up, notifications st.cl, new timers st.tm, and
\* st.threw when the call throws.
HandleClientMessage(m, st, ws, responding) ==
  IF revision = "websearch_simple" THEN HandleClientMessageSimple(m, st, ws, responding)
  ELSE IF ws # "OPEN" THEN st
  ELSE IF m.type = "mute"
  THEN [st EXCEPT !.isMuted = TRUE, !.cl = Append(@, MutedNote(TRUE))]
  ELSE IF m.type = "unmute"
  THEN [st EXCEPT !.isMuted = FALSE, !.cl = Append(@, MutedNote(FALSE))]
  ELSE IF m.type = "text_message" /\ TextTruthy(m)
  THEN IF ~m.textIsString THEN [st EXCEPT !.threw = TRUE]
       ELSE IF responding
       THEN [st EXCEPT !.cl = Append(@, Note("warning"))]
       ELSE [st EXCEPT
               !.up = @ \o <<Frame("input_audio_buffer.clear"), ItemCreate(FullText(m))>>,
               !.tm = Append(@, SettleTimer(FullText(m))),
               !.cl = Append(@, TranscriptNote("user", m.text, Len(m.files)))]
  ELSE IF m.type = "file_text" /\ TextTruthy(m) /\ revision = "server"
  THEN IF ~m.textIsString THEN [st EXCEPT !.threw = TRUE]
       ELSE IF responding THEN st
       ELSE [st EXCEPT
               !.up = @ \o <<Frame("input_audio_buffer.clear"), ItemCreate(<<m.text>>)>>,
               !.tm = Append(@, SettleTimer(<<m.text>>))]
  ELSE IF ForwardsAudio(m, st.isMuted)
  THEN [st EXCEPT !.up = Append(@, AudioAppend(m.data))]
  ELSE IF m.type = "cancel"
  THEN [st EXCEPT !.up = @ \o CancelFrames(responding)]
  ELSE IF m.type = "set_language" /\ m.language # ""
  THEN [st EXCEPT !.up = Append(@, SessionUpdate(m.language)),
                  !.cl = Append(@, LanguageNote(m.language))]
  ELSE IF m.type = "clear"
  THEN [st EXCEPT !.up = Append(@, Frame("conversation.clear")),
                  !.cl = Append(@, Note("conversation_cleared"))]
  ELSE st

\* The content entry of a file given by a url (lines 339-362, 425-446): the
\* kind follows the MIME type.
UrlContent(mimeType, url) ==
  <<IF mimeType = "image" THEN "input_image"
    ELSE IF mimeType = "audio" THEN "input_audio"
    ELSE "input_document", url>>

\* The content entries of the files of a text_message in the first revision of
\* src/server.js (lines 336-383); the files of the model carry no MIME type.
RECURSIVE FilesContent(_)
FilesContent(files) ==
  IF files = <<>> THEN <<>>
  ELSE LET file == Head(files)
           entry == IF file.url # "" THEN UrlContent("", file.url)
                    ELSE IF file.content # "" \/ file.text # ""
                    THEN <<"[", IF file.name # "" THEN file.name ELSE "File", "]:\n",
                           IF file.content # "" THEN file.content ELSE file.text>>
                    ELSE <<>>
       IN entry \o FilesContent(Tail(files))

\* The content array of an attachment (lines 422-456); empty when nothing can be
\* extracted.
AttachmentContent(m) ==
  IF m.url # "" THEN UrlContent(m.mimeType, m.url)
  ELSE IF m.content # "" \/ m.text # ""
  THEN <<"Attachment", ":\n", IF m.content # "" THEN m.content ELSE m.text>>
  ELSE <<>>

\* The frame the attachment branch sends before it looks at the content
\* (line 421).
ClearsFirst == <<Frame("input_audio_buffer.clear")>>

\* The attachment branch (lines 417-499).
HandleAttachment(m, st) ==
  LET cleared == [st EXCEPT !.up = @ \o ClearsFirst]
      content == AttachmentContent(m)
  IN IF m.url = "" /\ m.content = "" /\ m.text = "" /\ m.base64 # "" /\ m.mimeType = "image"
     THEN [cleared EXCEPT
             !.cl = Append(@, ErrorNote("Please upload the image first using /upload endpoint"))]
     ELSE IF content = <<>>
     THEN [cleared EXCEPT !.cl = Append(@, ErrorNote("Attachment has no valid content"))]
     ELSE [cleared EXCEPT
             !.up = Append(@, ItemCreate(content)),
             !.tm = Append(@, SettleTimer(content)),
             !.cl = Append(@, Note("attachment_received"))]

\* handleClientMessage of the first revision of src/server.js (lines 300-537),
\* which has no isResponding flag.
HandleClientMessageFirst(m, st, ws) ==
  IF ws # "OPEN" THEN st
  ELSE IF m.type = "mute"
  THEN [st EXCEPT !.isMuted = TRUE, !.cl = Append(@, MutedNote(TRUE))]
  ELSE IF m.type = "unmute"
  THEN [st EXCEPT !.isMuted = FALSE, !.cl = Append(@, MutedNote(FALSE))]
  ELSE IF m.type = "text_message" /\ TextTruthy(m)
  THEN IF ~m.textIsString THEN [st EXCEPT !.threw = TRUE]
       ELSE LET content == <<m.text>> \o FilesContent(m.files)
            IN [st EXCEPT
                  !.up = @ \o <<Frame("input_audio_buffer.clear"), ItemCreate(content)>>,
                  !.tm = Append(@, SettleTimer(content)),
                  !.cl = Append(@, TranscriptNote("user", m.text, 0))]
  ELSE IF m.type = "attachment" THEN HandleAttachment(m, st)
  ELSE IF ForwardsAudio(m, st.isMuted)
  THEN [st EXCEPT !.up = Append(@, AudioAppend(m.data))]
  ELSE IF m.type = "set_language" /\ m.language # ""
  THEN [st EXCEPT !.up = Append(@, SessionUpdate(m.language)),
                  !.cl = Append(@, LanguageNote(m.language))]
  ELSE IF m.type = "clear"
  THEN [st EXCEPT !.up = Append(@, Frame("conversation.clear")),
                  !.cl = Append(@, Note("conversation_cleared"))]
  ELSE st

\* handleClientMessage of the revision that runs.
Handle(m, st, ws, responding) ==
  IF revision = "attachment" THEN HandleClientMessageFirst(m, st, ws)
  ELSE HandleClientMessage(m, st, ws, responding)

\* The effects a callback of session s starts with.
Effects(s) ==
  [isMuted |-> isMuted[s], up |-> <<>>, cl |-> <<>>, tm |-> <<>>, threw |-> FALSE,
   queue |-> messageQueue[s], routed |-> <<>>]

\* The replay loop of the session.updated handler (lines 806-810): a throw of
\* handleClientMessage leaves the loop with the rest of the queue in place.
RECURSIVE Replay(_, _, _)
Replay(st, ws, responding) ==
  IF st.queue = <<>> \/ st.threw THEN st
  ELSE LET m == Head(st.queue)
           shifted == [st EXCEPT !.queue = Tail(@), !.routed = Append(@, m.id)]
       IN Replay(Handle(m, shifted, ws, responding), ws, responding)

\* The timer that session.updated starts after the replay (lines 812-823), not
\* reached when the replay threw.
AfterReplay(threw) == IF threw THEN <<>> ELSE <<GreetingTimer>>


\* --------------------------------------------------------- observations
\* What a callback was given: the type of a client message and how the message
\* handler disposed of it, the type of an upstream event, or nothing when it is
\* another callback.
Input(type, how) == [type |-> type, how |-> how]
NoInput == Input("none", "none")

\* A callback of session s was given inp, passed the frames tried to
\* openaiWs.send, of which up were sent upstream, and sent notes cl to the client;
\* the upstream peer had answered ackd session.update frames and finished fin
\* responses with the event handled.
Observe(s, inp, tried, up, cl, ackd, fin) ==
  /\ clIn' = inp
  /\ upTried' = tried
  /\ upOut' = up
  /\ toolLog' = [toolLog EXCEPT ![s] = @ \o SelectSeq(up, IsToolFrame)]
  /\ greetings' = [greetings EXCEPT ![s] = @ + Len(SelectSeq(up, IsGreeting))]
  /\ clOut' = Deliver(clientSocket[s], cl)
  /\ upFirst' = [upFirst EXCEPT ![s] = IF @ = "none" /\ up # <<>> THEN up[1].type ELSE @]
  /\ pendingUpdates' =
       [pendingUpdates EXCEPT ![s] = (@ - ackd) + CountType(up, "session.update")]
  /\ inFlight' =
       [inFlight EXCEPT ![s] = (IF @ > fin THEN @ - fin ELSE 0) + CountType(up, "response.create")]

\* The same for a callback that calls openaiWs.send only behind a test of the
\* socket, so that what it passes to send is what is sent.
Emit(s, inp, up, cl, ackd, fin) == Observe(s, inp, up, up, cl, ackd, fin)

InitSessions ==
  /\ pc = [s \in Sessions |-> "none"]
  /\ clientSocket = [s \in Sessions |-> "null"]
  /\ openaiWs = [s \in Sessions |-> "null"]
  /\ isMuted = [s \in Sessions |-> FALSE]
  /\ isReady = [s \in Sessions |-> FALSE]
  /\ isResponding = [s \in Sessions |-> FALSE]
  /\ messageQueue = [s \in Sessions |-> <<>>]
  /\ timers = [s \in Sessions |-> <<>>]
  /\ nClient = [s \in Sessions |-> 0]
  /\ pendingUpdates = [s \in Sessions |-> 0]
  /\ upActive = [s \in Sessions |-> FALSE]
  /\ routed = [s \in Sessions |-> <<>>]
  /\ preReady = [s \in Sessions |-> <<>>]
  /\ everReady = [s \in Sessions |-> FALSE]
  /\ responseOpen = [s \in Sessions |-> FALSE]
  /\ upFirst = [s \in Sessions |-> "none"]
  /\ inFlight = [s \in Sessions |-> 0]
  /\ clIn = NoInput
  /\ upOut = <<>>
  /\ upTried = <<>>
  /\ clOut = <<>>
  /\ searches = [s \in Sessions |-> <<>>]
  /\ toolLog = [s \in Sessions |-> <<>>]
  /\ greetings = [s \in Sessions |-> 0]

\* The process has started and listens (lines 1141-1150).
Started == process = "running" /\ exitCode = -1

\* src/server.js is the revision that runs.
Init == revision = "server" /\ Started /\ InitSessions

\* The tool-enabled revision runs.
InitWebSearch == revision = "websearch" /\ Started /\ InitSessions

\* The simplified tool-enabled revision runs.
InitWebSearchSimple == revision = "websearch_simple" /\ Started /\ InitSessions

\* The first revision of src/server.js, which handles attachment, runs.
InitAttachment == revision = "attachment" /\ Started /\ InitSessions

\* src/server.js is about to run its first statement.
InitStartup == revision = "server" /\ process = "start" /\ exitCode = -1 /\ InitSessions

\* ---------------------------------------------------------- the process
\* The end of the process ends every socket it holds.
Crash(socks) == [t \in Sessions |-> IF socks[t] = "null" THEN "null" ELSE "CLOSED"]

\* The values of the environment variable OPENAI_API_KEY: absent or empty, or set.
ApiKeys == {"", "sk-key"}

\* Mutant of KeyConfigured: the start-up does not look at the key.
KeyUnchecked(key) == TRUE

\* The start-up check of the key (line 609).
KeyConfigured(key) == key # ""

\* The script runs (lines 598-1158): without a key the process exits with code 1
\* at line 611, before the servers are created; with one it creates them,
\* listens and installs the SIGINT handler.
Startup(key) ==
  /\ process = "start"
  /\ IF KeyConfigured(key)
     THEN process' = "running" /\ exitCode' = exitCode
     ELSE process' = "exited" /\ exitCode' = 1
  /\ Emit(1, NoInput, <<>>, <<>>, 0, 0)
  /\ UNCHANGED <<revision, searches, pc, clientSocket, openaiWs, isMuted, isReady,
                 isResponding, messageQueue, timers, nClient, upActive, routed, preReady,
                 everReady, responseOpen>>

\* SIGINT (lines 1153-1158): the listener is closed and the process exits with
\* code 0, which ends every socket.
Sigint ==
  /\ process = "running"
  /\ process' = "exited"
  /\ exitCode' = 0
  /\ clientSocket' = Crash(clientSocket)
  /\ openaiWs' = Crash(openaiWs)
  /\ Emit(1, NoInput, <<>>, <<>>, 0, 0)
  /\ UNCHANGED <<revision, searches, pc, isMuted, isReady, isResponding, messageQueue,
                 timers, nClient, upActive, routed, preReady, everReady, responseOpen>>

\* ------------------------------------------------ wss.on('connection')
\* A client connects: the per-session state is created and the handler awaits
\* getRealtimeToken (lines 732-743).  No client handler is registered yet.
Connection(s) ==
  /\ process = "running"
  /\ pc[s] = "none"
  /\ \A t \in Sessions : t < s => pc[t] # "none"
  /\ pc' = [pc EXCEPT ![s] = "await_token"]
  /\ clientSocket' = [clientSocket EXCEPT ![s] = "OPEN"]
  /\ Emit(s, NoInput, <<>>, <<>>, 0, 0)
  /\ UNCHANGED <<revision, process, exitCode, searches,
                 openaiWs, isMuted, isReady, isResponding, messageQueue, timers,
                 nClient, upActive, routed, preReady, everReady, responseOpen>>

\* getRealtimeToken settles (lines 743-753, 911-918, 1108-1137): on resolve the
\* upstream socket is created and the handlers of both sockets are registered;
\* on reject the catch block notifies the client and returns.
TokenSettled(s, outcome) ==
  /\ process = "running"
  /\ pc[s] = "await_token"
  /\ CASE getRealtimeToken(outcome) = "resolve" ->
            /\ pc' = [pc EXCEPT ![s] = "running"]
            /\ openaiWs' = [openaiWs EXCEPT ![s] = "CONNECTING"]
            /\ Emit(s, NoInput, <<>>, <<>>, 0, 0)
            /\ UNCHANGED <<process, exitCode, clientSocket>>
       [] getRealtimeToken(outcome) = "reject" ->
            /\ pc' = [pc EXCEPT ![s] = "failed"]
            /\ Emit(s, NoInput, <<>>, <<ErrorNote("Setup failed")>>, 0, 0)
            /\ UNCHANGED <<process, exitCode, clientSocket, openaiWs>>
       [] getRealtimeToken(outcome) = "throw" ->
            /\ process' = "crashed"
            /\ exitCode' = 1
            /\ clientSocket' = Crash(clientSocket)
            /\ openaiWs' = Crash(openaiWs)
            /\ Emit(s, NoInput, <<>>, <<>>, 0, 0)
            /\ UNCHANGED pc
  /\ UNCHANGED <<revision, searches, isMuted, isReady, isResponding, messageQueue,
                 timers, nClient, upActive, routed, preReady, everReady, responseOpen>>

\* ---------------------------------------------------- upstream socket
\* openaiWs.on('open') (lines 755-794): the configuration frame, then 'connected'.
UpstreamOpen(s) ==
  /\ process = "running"
  /\ openaiWs[s] = "CONNECTING"
  /\ openaiWs' = [openaiWs EXCEPT ![s] = "OPEN"]
  /\ Emit(s, NoInput, <<SessionUpdate("en")>>, <<Note("connected")>>, 0, 0)
  /\ UNCHANGED <<revision, process, exitCode, searches,
                 pc, clientSocket, isMuted, isReady, isResponding, messageQueue,
                 timers, nClient, upActive, routed, preReady, everReady, responseOpen>>

\* Mutant of CloseSocket: the close handler leaves the client socket alone.
CloseSocketNever(sock) == sock

\* clientSocket.close() (line 908).
CloseSocket(sock) == IF sock = "OPEN" THEN "CLOSING" ELSE sock

\* openaiWs.on('close') (lines 904-909); the upstream socket fails to connect, is
\* closed by the peer, or finishes a close the relay began.
UpstreamClose(s) ==
  /\ process = "running"
  /\ openaiWs[s] \in {"CONNECTING", "OPEN", "CLOSING"}
  /\ openaiWs' = [openaiWs EXCEPT ![s] = "CLOSED"]
  /\ isReady' = [isReady EXCEPT ![s] = FALSE]
  /\ isResponding' = [isResponding EXCEPT ![s] = FALSE]
  /\ clientSocket' = [clientSocket EXCEPT ![s] = CloseSocket(@)]
  /\ upActive' = [upActive EXCEPT ![s] = FALSE]
  /\ responseOpen' = [responseOpen EXCEPT ![s] = FALSE]
  /\ Emit(s, NoInput, <<>>, <<>>, pendingUpdates[s], inFlight[s])
  /\ UNCHANGED <<revision, process, exitCode, searches,
                 pc, isMuted, messageQueue, timers, nClient, routed, preReady,
                 everReady>>


\* The upstream peer follows its protocol: it answers each session.update with
\* one session.updated, generates one response at a time, and streams audio only
\* during a response.
UpstreamMaySend(s, e) ==
  CASE e.type = "session.updated" -> pendingUpdates[s] > 0
    [] e.type = "response.created" -> ~upActive[s]
    [] e.type \in {"response.done", "response.cancelled", "response.audio.delta",
                   "response.audio_transcript.done",
                   "response.function_call_arguments.done"} -> upActive[s]
    [] OTHER -> TRUE

\* Mutant of RespondingAfter: response.created does not set the flag.
RespondingNeverSet(e, responding) ==
  IF e.type \in {"response.done", "response.cancelled", "error"} THEN FALSE ELSE responding

\* Mutant of RespondingAfter: response.cancelled leaves the flag alone.
RespondingCancelIgnored(e, responding) ==
  IF e.type = "response.created" THEN TRUE
  ELSE IF e.type \in {"response.done", "error"} THEN FALSE
  ELSE responding

\* Mutant of RespondingAfter: the assistant transcript ends the response too.
RespondingClearedByTranscript(e, responding) ==
  IF e.type = "response.created" THEN TRUE
  ELSE IF e.type \in {"response.done", "response.cancelled", "error",
                      "response.audio_transcript.done"} THEN FALSE
  ELSE responding

\* isResponding after an upstream event (lines 846-862, 888).  The tool-enabled
\* revisions have no response.cancelled branch (part_004 lines 958-968,
\* 1581-1591); the first revision of src/server.js has no such flag.
RespondingAfter(e, responding) ==
  IF revision = "attachment" THEN responding
  ELSE IF e.type = "response.created" THEN TRUE
  ELSE IF e.type \in {"response.done", "error"} THEN FALSE
  ELSE IF e.type = "response.cancelled" /\ revision = "server" THEN FALSE
  ELSE responding

\* Mutant of Forwarded: every upstream event is passed on under its own type.
ForwardedUntranslated(e) == <<Note(e.type)>>

\* Mutant of Forwarded: the two voice-activity notifications are exchanged.
ForwardedVadSwapped(e) ==
  CASE e.type = "input_audio_buffer.speech_started" -> <<Note("vad_stop")>>
    [] e.type = "input_audio_buffer.speech_stopped" -> <<Note("vad_start")>>
    [] OTHER -> <<>>

\* Notifications of the upstream events that are forwarded (lines 826-844,
\* 864-893).  The simplified tool-enabled revision logs an upstream error and
\* sends the client nothing (part_004 lines 1054-1058).
Forwarded(e) ==
  CASE e.type = "input_audio_buffer.speech_started" -> <<Note("vad_start")>>
    [] e.type = "input_audio_buffer.speech_stopped" -> <<Note("vad_stop")>>
    [] e.type = "response.audio.delta" /\ e.payload # "" -> <<AudioNote(e.payload)>>
    [] e.type = "conversation.item.input_audio_transcription.completed" ->
         <<TranscriptNote("user", e.payload, 0)>>
    [] e.type = "response.audio_transcript.done" ->
         <<TranscriptNote("assistant", e.payload, 0)>>
    [] e.type = "error" /\ revision # "websearch_simple" ->
         <<ErrorNote(IF e.payload # "" THEN e.payload ELSE "Unknown error")>>
    [] OTHER -> <<>>

\* The event types that openaiWs.on('message') has a branch for (lines 801-886;
\* the tool-enabled revisions have none for response.cancelled, the first
\* revision of src/server.js none for response.created and response.done).
RecognizedEvents ==
  {"session.updated", "input_audio_buffer.speech_started",
   "input_audio_buffer.speech_stopped", "response.audio.delta",
   "conversation.item.input_audio_transcription.completed",
   "response.audio_transcript.done", "error"}
    \union (IF revision = "server" THEN {"response.cancelled"} ELSE {})
    \union (IF revision \in {"websearch", "websearch_simple"}
            THEN {"response.function_call_arguments.done"} ELSE {})
    \union (IF revision = "attachment" THEN {} ELSE {"response.created", "response.done"})

\* The branch an event takes: one of the recognized ones, or none, and then the
\* event is known by its type.
Branch(e) == IF e.type \in RecognizedEvents THEN "recognized" ELSE e.type

\* JSON.parse(message.arguments) and the read of args.query (part_004 lines
\* 1620-1621): the query, or "<throws>".
ParseArguments(arguments) == IF arguments = "{\"query\":\"q\"}" THEN "q" ELSE "<throws>"

\* Whether the function-call branch of the tool-enabled revisions (part_004 lines
\* 992-1045, 1615-1675) calls performWebSearch: the function is web_search and
\* the arguments parse; a parse error is caught and logged.
StartsSearch(e) == e.name = "web_search" /\ ParseArguments(e.arguments) # "<throws>"

\* The tool invocations of a session after an upstream event: a call whose
\* search started is pending, any other is dropped.
SearchesAfter(e, calls) ==
  IF e.type = "response.function_call_arguments.done"
       /\ revision \in {"websearch", "websearch_simple"}
  THEN Append(calls, [call_id |-> e.call_id, name |-> e.name,
                      state |-> IF StartsSearch(e) THEN "pending" ELSE "dropped"])
  ELSE calls

\* openaiWs.on('message') (lines 796-898).
UpstreamMessage(s, e) ==
  /\ process = "running"
  /\ openaiWs[s] \in {"OPEN", "CLOSING"}
  /\ upFirst[s] # "none"
  /\ UpstreamMaySend(s, e)
  /\ LET updated == e.type = "session.updated"
         r == IF updated THEN Replay(Effects(s), openaiWs[s], isResponding[s])
              ELSE Effects(s)
         newTimers == IF updated THEN r.tm \o AfterReplay(r.threw) ELSE <<>>
         fin == IF e.type \in {"response.done", "response.cancelled", "error"} THEN 1 ELSE 0
     IN /\ isReady' = [isReady EXCEPT ![s] = IF updated THEN TRUE ELSE @]
        /\ everReady' = [everReady EXCEPT ![s] = IF updated THEN TRUE ELSE @]
        /\ responseOpen' = [responseOpen EXCEPT ![s] =
                              IF e.type = "response.created" THEN TRUE
                              ELSE IF fin = 1 THEN FALSE
                              ELSE @]
        /\ isMuted' = [isMuted EXCEPT ![s] = r.isMuted]
        /\ messageQueue' = [messageQueue EXCEPT ![s] = r.queue]
        /\ routed' = [routed EXCEPT ![s] = @ \o r.routed]
        /\ timers' = [timers EXCEPT ![s] = @ \o newTimers]
        /\ isResponding' = [isResponding EXCEPT ![s] = RespondingAfter(e, @)]
        /\ upActive' = [upActive EXCEPT ![s] =
                          IF e.type = "response.created" THEN TRUE
                          ELSE IF e.type \in {"response.done", "response.cancelled"} THEN FALSE
                          ELSE @]
        /\ searches' = [searches EXCEPT ![s] = SearchesAfter(e, @)]
        /\ Emit(s, Input(Branch(e), "upstream"), r.up, r.cl \o Forwarded(e),
                IF updated THEN 1 ELSE 0, fin)
  /\ UNCHANGED <<revision, process, exitCode,
                 pc, clientSocket, openaiWs, nClient, preReady>>

\* The text of the tool-result item (part_004 lines 1634-1636).
SearchOutput(outcome) == IF outcome = "success" THEN "Search results" ELSE "fallback"

\* The continuation timer of a call (part_004 lines 1640-1647).
ContinueTimer(call_id) == [kind |-> "continue", item |-> call_id]

\* Mutant of ResultFrames: the result item is not sent.
ResultFramesNone(ws, call_id, outcome) == <<>>

\* The frame the .then callback sends (part_004 lines 1628-1637).
ResultFrames(ws, call_id, outcome) ==
  IF ws = "OPEN" THEN <<FunctionOutput(call_id, SearchOutput(outcome))>> ELSE <<>>

\* What the .then callback passes to openaiWs.send, which it calls without a
\* test of the socket (part_004 lines 1628-1637).
ResultSent(call_id, outcome) == <<FunctionOutput(call_id, SearchOutput(outcome))>>

\* The promise of performWebSearch of the i-th tool invocation settles and its
\* .then callback runs (part_004 lines 1624-1648): the result item is sent and
\* the continuation is scheduled.
SearchSettled(s, i, outcome) ==
  /\ process = "running"
  /\ i \in 1..Len(searches[s])
  /\ searches[s][i].state = "pending"
  /\ searches' = [searches EXCEPT ![s][i].state = "settled"]
  /\ timers' = [timers EXCEPT ![s] = Append(@, ContinueTimer(searches[s][i].call_id))]
  /\ Observe(s, NoInput, ResultSent(searches[s][i].call_id, outcome),
             ResultFrames(openaiWs[s], searches[s][i].call_id, outcome), <<>>, 0, 0)
  /\ UNCHANGED <<revision, process, exitCode, pc, clientSocket, openaiWs, isMuted, isReady,
                 isResponding, messageQueue, nClient, upActive, routed, preReady,
                 everReady, responseOpen>>

\* ------------------------------------------------------ client socket
\* Mutant of Routes: the handler routes without waiting for READY.
RoutesAlways(ready) == TRUE

\* Whether the message handler routes a message or holds it back (line 1112).
Routes(ready) == ready

\* Whether a message that is held back is queued (lines 1116-1122); the
\* tool-enabled revisions queue every message (part_004 lines 1181-1184,
\* 1859-1861), and so does the first revision of src/server.js (lines 553-556).
Queues(m) == m.type # "audio" \/ revision # "server"

\* Mutant of Disposition: a message that does not parse is treated as any other.
DispositionUnparsed(s, m) ==
  IF pc[s] # "running" THEN "lost"
  ELSE IF isReady[s] THEN "routed"
  ELSE IF m.type # "audio" THEN "queued"
  ELSE "dropped"

\* How clientSocket.on('message') (lines 1108-1128) disposes of a message.
Disposition(s, m) ==
  IF pc[s] # "running" THEN "lost"
  ELSE IF m.type = "<unparsable>" THEN "malformed"
  ELSE IF Routes(isReady[s]) THEN "routed"
  ELSE IF Queues(m) THEN "queued"
  ELSE "dropped"

\* A client message arrives.  Before the handlers are registered (while the
\* token is awaited, or after the setup failed) the 'message' event has no
\* listener and the message is lost.
ClientMessage(s, m0) ==
  /\ process = "running"
  /\ clientSocket[s] \in {"OPEN", "CLOSING"}
  /\ nClient[s] < MaxClientMsgs
  /\ nClient' = [nClient EXCEPT ![s] = @ + 1]
  /\ LET m == [m0 EXCEPT !.id = nClient[s] + 1]
         how == Disposition(s, m)
         r == IF how = "routed"
              THEN Handle(m, Effects(s), openaiWs[s], isResponding[s])
              ELSE Effects(s)
     IN /\ isMuted' = [isMuted EXCEPT ![s] = r.isMuted]
        /\ timers' = [timers EXCEPT ![s] = @ \o r.tm]
        /\ messageQueue' = [messageQueue EXCEPT ![s] =
                              IF how = "queued" THEN Append(@, m) ELSE @]
        /\ routed' = [routed EXCEPT ![s] = IF how = "routed" THEN Append(@, m.id) ELSE @]
        /\ preReady' = [preReady EXCEPT ![s] =
                          IF ~everReady[s] /\ m.type \notin {"audio", "<unparsable>"}
                          THEN Append(@, m.id) ELSE @]
        /\ Emit(s, Input(m.type, how), r.up, r.cl, 0, 0)
  /\ UNCHANGED <<revision, process, exitCode, searches,
                 pc, clientSocket, openaiWs, isReady, isResponding, upActive,
                 everReady, responseOpen>>

\* openaiWs.close() (line 1132).
CloseUpstream(ws) == IF ws \in {"CONNECTING", "OPEN"} THEN "CLOSING" ELSE ws

\* The client socket closes; clientSocket.on('close') (lines 1130-1133) runs when
\* it has been registered.
ClientClose(s) ==
  /\ process = "running"
  /\ clientSocket[s] \in {"OPEN", "CLOSING"}
  /\ clientSocket' = [clientSocket EXCEPT ![s] = "CLOSED"]
  /\ openaiWs' = [openaiWs EXCEPT ![s] = IF pc[s] = "running" THEN CloseUpstream(@) ELSE @]
  /\ Emit(s, NoInput, <<>>, <<>>, 0, 0)
  /\ UNCHANGED <<revision, process, exitCode, searches,
                 pc, isMuted, isReady, isResponding, messageQueue, timers,
                 nClient, upActive, routed, preReady, everReady, responseOpen>>

\* --------------------------------------------------------------- timers
Delay(timer) ==
  IF timer.kind = "greeting" THEN GreetingDelay
  ELSE IF timer.kind = "continue" THEN ContinueDelay
  ELSE SettleDelay

\* Timers fire in order of expiry: a timer created later fires before an
\* earlier one only when its delay is shorter.
MayFire(tms, i) == \A j \in 1..(i - 1) : Delay(tms[i]) < Delay(tms[j])

\* Mutant of TimerFrames: the settle timer does not look at isResponding.
TimerFramesUnchecked(timer, ws, responding) ==
  IF ws = "OPEN" THEN <<ResponseCreate(timer.kind, timer.item)>> ELSE <<>>

\* The frame of the continuation timer of a tool call (part_004 lines
\* 1640-1647).
ContinueFrames(timer, ws) ==
  IF ws = "OPEN" THEN <<ResponseCreate("continue", timer.item)>> ELSE <<>>

\* The frames a timer callback sends (lines 813-823, 991-1000, 1035-1044).
TimerFrames(timer, ws, responding) ==
  IF timer.kind = "greeting"
  THEN IF ws = "OPEN" THEN <<ResponseCreate("greeting", timer.item)>> ELSE <<>>
  ELSE IF timer.kind = "continue" THEN ContinueFrames(timer, ws)
  ELSE IF ws = "OPEN" /\ ~responding THEN <<ResponseCreate("settle", timer.item)>> ELSE <<>>

\* What a timer callback passes to openaiWs.send: the callbacks test the socket
\* first, but for the settle timer of the first revision of src/server.js
\* (lines 393-400), which sends without a test.
TimerSends(timer, ws, responding) ==
  IF revision = "attachment" /\ timer.kind = "settle"
  THEN <<ResponseCreate("settle", timer.item)>>
  ELSE TimerFrames(timer, ws, responding)

Remove(seq, i) == SubSeq(seq, 1, i - 1) \o SubSeq(seq, i + 1, Len(seq))

TimerFire(s, i) ==
  /\ process = "running"
  /\ i \in 1..Len(timers[s])
  /\ MayFire(timers[s], i)
  /\ timers' = [timers EXCEPT ![s] = Remove(@, i)]
  /\ Observe(s, NoInput, TimerSends(timers[s][i], openaiWs[s], isResponding[s]),
             TimerFrames(timers[s][i], openaiWs[s], isResponding[s]), <<>>, 0, 0)
  /\ UNCHANGED <<revision, process, exitCode, searches,
                 pc, clientSocket, openaiWs, isMuted, isReady, isResponding,
                 messageQueue, nClient, upActive, routed, preReady, everReady, responseOpen>>

\* ------------------------------------------------------- specification
Step(s) ==
  \/ Connection(s)
  \/ \E outcome \in TokenOutcomes : TokenSettled(s, outcome)
  \/ UpstreamOpen(s)
  \/ \E e \in UpstreamEvents : UpstreamMessage(s, e)
  \/ UpstreamClose(s)
  \/ \E m \in ClientMsgs : ClientMessage(s, m)
  \/ ClientClose(s)
  \/ \E i \in 1..Len(timers[s]) : TimerFire(s, i)

\* One session.
Next == Step(1)

Spec == Init /\ [][Next]_vars

\* A close that has begun completes: ws ends the closing handshake of a socket
\* when the peer answers or, failing that, when its close timer expires.
SpecFair == Spec /\ WF_vars(ClientClose(1))

\* One session of the tool-enabled revision.
SpecWebSearch == InitWebSearch /\ [][Next]_vars

\* One session of the simplified tool-enabled revision.
SpecWebSearchSimple == InitWebSearchSimple /\ [][Next]_vars


\* Two concurrent sessions, each with one client message and the events of one
\* response.
MultiMsgs == {Text}
MultiEvents == {Ev("session.updated", ""), Ev("response.created", ""), Ev("response.done", "")}

StepMulti(s) ==
  \/ Connection(s)
  \/ \E outcome \in TokenOutcomes : TokenSettled(s, outcome)
  \/ UpstreamOpen(s)
  \/ \E e \in MultiEvents : UpstreamMessage(s, e)
  \/ UpstreamClose(s)
  \/ \E m \in MultiMsgs : nClient[s] = 0 /\ ClientMessage(s, m)
  \/ ClientClose(s)
  \/ \E i \in 1..Len(timers[s]) : TimerFire(s, i)

NextMulti == \E s \in Sessions : StepMulti(s)

SpecMulti == Init /\ [][NextMulti]_vars

\* One session whose client sends every text as a JSON string.
StringTextMsgs == ClientMsgs \ {TextNumber}

NextStringText ==
  \/ Connection(1)
  \/ \E outcome \in TokenOutcomes : TokenSettled(1, outcome)
  \/ UpstreamOpen(1)
  \/ \E e \in UpstreamEvents : UpstreamMessage(1, e)
  \/ UpstreamClose(1)
  \/ \E m \in StringTextMsgs : ClientMessage(1, m)
  \/ ClientClose(1)
  \/ \E i \in 1..Len(timers[1]) : TimerFire(1, i)

SpecStringText == Init /\ [][NextStringText]_vars

\* One session of the tool-enabled revision with one client message and the
\* tool invocations of the upstream model, which gives every call an id of its
\* own.
ToolSessionEvents ==
  {Ev("session.updated", ""), Ev("response.created", ""), Ev("response.done", "")}
ToolSessionMsgs == {Text}

NextTools ==
  \/ Connection(1)
  \/ \E outcome \in TokenOutcomes : TokenSettled(1, outcome)
  \/ UpstreamOpen(1)
  \/ \E e \in ToolSessionEvents : UpstreamMessage(1, e)
  \/ \E name \in ToolNames, arguments \in ToolArguments :
        /\ Len(searches[1]) < MaxToolCalls
        /\ UpstreamMessage(1, ToolCall(name, arguments, Len(searches[1]) + 1))
  \/ \E i \in 1..MaxToolCalls, outcome \in SearchOutcomes : SearchSettled(1, i, outcome)
  \/ UpstreamClose(1)
  \/ \E m \in ToolSessionMsgs : nClient[1] = 0 /\ ClientMessage(1, m)
  \/ ClientClose(1)
  \/ \E i \in 1..Len(timers[1]) : TimerFire(1, i)

SpecTools == InitWebSearch /\ [][NextTools]_vars

\* One session of the first revision of src/server.js.
NextAttachment ==
  \/ Connection(1)
  \/ \E outcome \in TokenOutcomes : TokenSettled(1, outcome)
  \/ UpstreamOpen(1)
  \/ \E e \in UpstreamEvents : UpstreamMessage(1, e)
  \/ UpstreamClose(1)
  \/ \E m \in AttachmentMsgs : ClientMessage(1, m)
  \/ ClientClose(1)
  \/ \E i \in 1..Len(timers[1]) : TimerFire(1, i)

SpecAttachment == InitAttachment /\ [][NextAttachment]_vars

\* The process from its first statement to its exit, with two sessions.
NextProcess ==
  \/ \E key \in ApiKeys : Startup(key)
  \/ Sigint
  \/ \E s \in Sessions : StepMulti(s)

SpecProcess == InitStartup /\ [][NextProcess]_vars

\* The state of one session.
SessionState(t) ==
  <<pc[t], clientSocket[t], openaiWs[t], isMuted[t], isReady[t], isResponding[t],
    messageQueue[t], timers[t]>>


\* ================================================================ claims
\* A well-formed generation request that is routed while RESPONDING, with both
\* sockets open.
GenerationRequest(m) ==
  /\ m.type \in {"text_message", "file_text"}
  /\ TextTruthy(m)
  /\ m.textIsString

Flags(s) == <<isMuted[s], isReady[s], isResponding[s]>>

\* C1: a text_message or file_text request routed by handleClientMessage while
\* isResponding is true sends no frame upstream, changes no session flag, is not
\* queued and schedules nothing, and the client receives exactly one warning.
C1_RejectedWithWarning ==
  [][\A m \in ClientMsgs :
       ( /\ ClientMessage(1, m)
         /\ GenerationRequest(m)
         /\ Disposition(1, m) = "routed"
         /\ isResponding[1]
         /\ openaiWs[1] = "OPEN"
         /\ clientSocket[1] = "OPEN" )
       => ( /\ upOut' = <<>>
            /\ clOut' = <<Note("warning")>>
            /\ Flags(1)' = Flags(1)
            /\ messageQueue'[1] = messageQueue[1]
            /\ timers'[1] = timers[1] )]_vars

\* C2: at most one response triggered by the relay is in flight: no
\* response.create is sent while an earlier one has not been finished by
\* response.done, response.cancelled or error.
C2_OneResponseInFlight == inFlight[1] <= 1

InPreReady(s, id) == \E i \in 1..Len(preReady[s]) : preReady[s][i] = id

RoutedOfPreReady(s) ==
  LET Test(id) == InPreReady(s, id) IN SelectSeq(routed[s], Test)

\* C3: once the session is READY, the messages (audio aside) that arrived before
\* READY have been handed to handleClientMessage exactly once each, in arrival
\* order.
C3_QueuedDeliveredOnceInOrder == everReady[1] => RoutedOfPreReady(1) = preReady[1]

\* C4: before the upstream confirmed the configuration with session.updated no
\* client message is routed and no frame other than the configuration frame is
\* sent upstream, and the first frame sent upstream is session.update.
C4_NothingRoutedBeforeReady ==
  /\ upFirst[1] \in {"none", "session.update"}
  /\ ~everReady[1] =>
       /\ routed[1] = <<>>
       /\ \A i \in 1..Len(upOut) : upOut[i] = SessionUpdate("en")
       /\ pendingUpdates[1] <= 1
       /\ inFlight[1] = 0
       /\ timers[1] = <<>>

\* Messages were held back before READY while the configuration frame was sent.
C4_Witness ==
  /\ ~everReady[1]
  /\ Len(messageQueue[1]) >= 2
  /\ upFirst[1] = "session.update"
  /\ openaiWs[1] = "OPEN"

\* C5: client messages are routed in arrival order: no message is routed while a
\* message that arrived earlier is still held in the queue.
C5_ArrivalOrder ==
  /\ \A i \in 1..Len(messageQueue[1]), j \in 1..Len(routed[1]) :
       routed[1][j] < messageQueue[1][i].id
  /\ \A i, j \in 1..Len(routed[1]) : i < j => routed[1][i] < routed[1][j]

\* Every file with text or content has its content in the text, right after its
\* own delimiter.
FilesDelimited(m, text) ==
  \A k \in 1..Len(m.files) :
    LET f == m.files[k]
        body == IF f.text # "" THEN f.text ELSE f.content
    IN body # "" =>
         \E i \in 1..(Len(text) - 3) :
           /\ text[i] = "\n\n[Content from "
           /\ text[i + 1] = (IF f.name # "" THEN f.name ELSE "File")
           /\ text[i + 2] = "]:\n"
           /\ text[i + 3] = body

\* An accepted text_message with files: the step of handleClientMessage.
AcceptsTextWithFiles(m) ==
  /\ m.type = "text_message" /\ TextTruthy(m) /\ m.textIsString
  /\ m.files # <<>>
  /\ Disposition(1, m) = "routed"
  /\ ~isResponding[1]
  /\ openaiWs[1] = "OPEN"
  /\ ClientMessage(1, m)

\* It sends exactly one conversation.item.create, holding the message text and
\* each file's content under its own delimiter, and starts its settle timer.
OneItemCreated(m) ==
  /\ CountType(upOut', "conversation.item.create") = 1
  /\ \E i \in 1..Len(upOut') :
       /\ upOut'[i] = ItemCreate(FullText(m))
       /\ upOut'[i].text[1] = m.text
       /\ FilesDelimited(m, upOut'[i].text)
  /\ timers'[1] = Append(timers[1], SettleTimer(FullText(m)))

\* The settle timer of the item of a text_message with files fires.
SettleFires(i) ==
  /\ TimerFire(1, i)
  /\ timers[1][i].kind = "settle"
  /\ Len(timers[1][i].item) > 1

\* C6 (as claimed): an accepted text_message with file text sends exactly one
\* conversation.item.create holding the message text and each file's content
\* under its own delimiter, and the settle timer of that item sends exactly one
\* response.create for it while the upstream connection is open, whatever
\* upstream events arrived during the settle delay.
C6_ItemThenOneTrigger ==
  [][/\ \A m \in ClientMsgs : AcceptsTextWithFiles(m) => OneItemCreated(m)
     /\ \A i \in 1..Len(timers[1]) :
          (SettleFires(i) /\ openaiWs[1] = "OPEN")
          => upOut' = <<ResponseCreate("settle", timers[1][i].item)>>]_vars

\* C6 (amended): an accepted text_message with file text sends exactly one
\* conversation.item.create holding the message text and each file's content
\* under its own delimiter, and the settle timer of that item fires once and
\* sends at most one response.create for it: exactly one when the upstream
\* connection is open and isResponding is false as the delay elapses, none
\* otherwise.
C6_ItemThenAtMostOneTrigger ==
  [][/\ \A m \in ClientMsgs : AcceptsTextWithFiles(m) => OneItemCreated(m)
     /\ \A i \in 1..Len(timers[1]) :
          SettleFires(i)
          => /\ timers'[1] = Remove(timers[1], i)
             /\ upOut' = IF openaiWs[1] = "OPEN" /\ ~isResponding[1]
                         THEN <<ResponseCreate("settle", timers[1][i].item)>>
                         ELSE <<>>]_vars

\* The response.create for the item of the text_message with files was sent.
C6_Witness ==
  /\ upOut = <<ResponseCreate("settle", FullText(TextFiles))>>
  /\ Len(FullText(TextFiles)) > 1

\* C7: when the client socket closes while the session is READY, the close of the
\* upstream connection is under way and the pending queue is empty.
C7_ClientCloseReleases ==
  [][(ClientClose(1) /\ isReady[1])
     => (openaiWs'[1] \in {"CLOSING", "CLOSED"} /\ messageQueue'[1] = <<>>)]_vars

\* C8: closing either leg closes the other: no upstream connection is connecting
\* or open once its client has closed, and no client connection stays open once
\* its upstream connection has closed.
C8_NoLegOutlivesTheOther ==
  /\ clientSocket[1] = "CLOSED" => openaiWs[1] \notin {"CONNECTING", "OPEN"}
  /\ openaiWs[1] = "CLOSED" => clientSocket[1] \in {"CLOSING", "CLOSED"}

\* C9: when the credential acquisition rejects, the client receives exactly one
\* error notification, the relay closes the client connection, and no handler is
\* installed.
C9_SetupFailureClosesClient ==
  [][\A outcome \in TokenOutcomes :
       ( /\ TokenSettled(1, outcome)
         /\ getRealtimeToken(outcome) = "reject"
         /\ clientSocket[1] = "OPEN" )
       => ( /\ clOut' = <<ErrorNote("Setup failed")>>
            /\ clientSocket'[1] \in {"CLOSING", "CLOSED"}
            /\ pc'[1] = "failed" )]_vars

\* C10: a credential acquisition failure of any kind in one session is notified
\* to that session's client as an error, and leaves the process running and the
\* state of another, connected session unchanged.
C10_CredentialFailureIsolated ==
  [][\A s, t \in Sessions : \A outcome \in TokenOutcomes \ {"ok"} :
       ( /\ TokenSettled(s, outcome)
         /\ t # s
         /\ clientSocket[t] = "OPEN" )
       => ( /\ process' = "running"
            /\ SessionState(t)' = SessionState(t)
            /\ clientSocket[s] = "OPEN" => clOut' = <<ErrorNote("Setup failed")>> )]_vars

\* C11: when the upstream connection fails to open or closes, the relay closes
\* the client connection, which is the client's notice of the failure; the
\* client connection is eventually closed, and isReady and isResponding are
\* false from then on.
C11_UpstreamFailureTearsDown ==
  /\ [](openaiWs[1] = "CLOSED"
         => /\ clientSocket[1] \in {"CLOSING", "CLOSED"}
            /\ ~isReady[1]
            /\ ~isResponding[1])
  /\ (openaiWs[1] = "CLOSED" ~> clientSocket[1] = "CLOSED")

\* The upstream connection of a READY session closed and the close handler
\* began closing the client connection.
C11_Witness ==
  /\ openaiWs[1] = "CLOSED"
  /\ clientSocket[1] = "CLOSING"
  /\ everReady[1]

\* C12: for every upstream error event that carries a message, the client
\* receives exactly one error notification with that message, neither leg is
\* closed, and isReady and isMuted are unchanged.
C12_UpstreamErrorForwarded ==
  [][\A e \in UpstreamEvents :
       ( /\ e.type = "error"
         /\ e.payload # ""
         /\ clientSocket[1] = "OPEN"
         /\ UpstreamMessage(1, e) )
       => ( /\ clOut' = <<ErrorNote(e.payload)>>
            /\ clientSocket'[1] = clientSocket[1]
            /\ openaiWs'[1] = openaiWs[1]
            /\ isReady'[1] = isReady[1]
            /\ isMuted'[1] = isMuted[1] )]_vars

\* C13: every response.audio.delta with a non-empty delta that arrives after
\* response.created, before a response.done, response.cancelled or error, is
\* forwarded to the client as exactly one audio notification with the same data
\* by the callback of that event, and isResponding is true as it is forwarded.
C13_AudioForwardedWhileResponding ==
  [][\A e \in UpstreamEvents :
       ( /\ e.type = "response.audio.delta"
         /\ e.payload # ""
         /\ responseOpen[1]
         /\ clientSocket[1] = "OPEN"
         /\ UpstreamMessage(1, e) )
       => ( /\ clOut' = <<AudioNote(e.payload)>>
            /\ isResponding[1]
            /\ isResponding'[1] )]_vars

\* An audio delta of a response was forwarded while isResponding is set.
C13_Witness ==
  /\ clOut = <<AudioNote("AAAA")>>
  /\ responseOpen[1]
  /\ isResponding[1]

\* The notification {type: 'muted', muted: true}.
MutedTrue == [type |-> "muted", muted |-> TRUE]

AllMutes(queue) == \A i \in 1..Len(queue) : queue[i].type = "mute"

\* C14: mute is idempotent.  Every mute routed in a READY session sets isMuted
\* and sends the client exactly one muted notification with muted true and
\* nothing else; a mute routed when isMuted is already set leaves the whole
\* session state as it was; and mutes routed one after the other by the replay
\* produce one such notification each.
C14_MuteIdempotent ==
  [][/\ ( /\ Disposition(1, Mute) = "routed"
          /\ ClientMessage(1, Mute) )
        => ( /\ isMuted'[1]
             /\ clOut' = <<MutedTrue>>
             /\ upOut' = <<>>
             /\ isMuted[1] => SessionState(1)' = SessionState(1) )
     /\ ( /\ messageQueue[1] # <<>>
          /\ AllMutes(messageQueue[1])
          /\ openaiWs[1] = "OPEN"
          /\ clientSocket[1] = "OPEN"
          /\ UpstreamMessage(1, Ev("session.updated", "")) )
        => ( /\ isMuted'[1]
             /\ clOut' = [i \in 1..Len(messageQueue[1]) |-> MutedTrue]
             /\ upOut' = <<>>
             /\ messageQueue'[1] = <<>> )]_vars

\* Two mutes were routed in a row: two muted notifications, isMuted set.
C14_Witness ==
  /\ clOut = <<MutedTrue, MutedTrue>>
  /\ isMuted[1]
  /\ isReady[1]

\* C15: a client audio message routed while isMuted is set sends no frame
\* upstream and no notification to the client, and changes no session flag,
\* queue or timer.
C15_MutedAudioDropped ==
  [][( /\ Disposition(1, Audio) = "routed"
       /\ isMuted[1]
       /\ ClientMessage(1, Audio) )
     => ( /\ upOut' = <<>>
          /\ clOut' = <<>>
          /\ SessionState(1)' = SessionState(1) )]_vars

\* An audio message was routed with isMuted set, upstream open.
C15_Witness ==
  /\ clIn = Input("audio", "routed")
  /\ isMuted[1]
  /\ openaiWs[1] = "OPEN"
  /\ upOut = <<>>

\* C16: a client audio message with data routed in READY while not muted sends
\* exactly one input_audio_buffer.append with the same data, in the callback of
\* the message, and neither sends nor schedules a response.create, whether or
\* not isResponding is set.
C16_AudioForwarded ==
  [][( /\ Disposition(1, Audio) = "routed"
       /\ ~isMuted[1]
       /\ ClientMessage(1, Audio) )
     => ( /\ upOut' = <<[type |-> "input_audio_buffer.append", audio |-> Audio.data]>>
          /\ clOut' = <<>>
          /\ timers'[1] = timers[1]
          /\ inFlight'[1] = inFlight[1]
          /\ SessionState(1)' = SessionState(1) )]_vars

\* An audio chunk was forwarded while a response was in progress.
C16_Witness ==
  /\ clIn = Input("audio", "routed")
  /\ upOut = <<[type |-> "input_audio_buffer.append", audio |-> "AAAA"]>>
  /\ isResponding[1]

\* C17: a client cancel routed while isResponding is set sends exactly one
\* response.cancel upstream; routed while isResponding is not set it sends
\* nothing; either way the client is sent nothing and the session state does
\* not change.
C17_CancelOnlyWhileResponding ==
  [][( /\ Disposition(1, Cancel) = "routed"
       /\ ClientMessage(1, Cancel) )
     => ( /\ upOut' = IF isResponding[1] THEN <<[type |-> "response.cancel"]>> ELSE <<>>
          /\ clOut' = <<>>
          /\ SessionState(1)' = SessionState(1) )]_vars

\* A cancel was routed during a response and response.cancel was sent.
C17_Witness ==
  /\ clIn = Input("cancel", "routed")
  /\ upOut = <<[type |-> "response.cancel"]>>
  /\ isResponding[1]

\* C18: a client message that the message handler receives before READY is
\* appended to the pending queue unless it is audio; an audio message is
\* dropped: it is not queued, nothing is sent upstream for it, and the queue
\* never holds an audio message for the replay to forward.
C18_AudioNotQueued ==
  [][\A m \in ClientMsgs \ {Malformed} :
       ( /\ pc[1] = "running"
         /\ ~isReady[1]
         /\ ClientMessage(1, m) )
       => ( /\ upOut' = <<>>
            /\ IF m.type = "audio"
               THEN messageQueue'[1] = messageQueue[1]
               ELSE messageQueue'[1] = Append(messageQueue[1], [m EXCEPT !.id = nClient'[1]])
            /\ \A i \in 1..Len(messageQueue'[1]) : messageQueue'[1][i].type # "audio" )]_vars

\* C19: the callback of session.updated replays every queued message, so that
\* the queue is empty after it, sends no response.create itself and starts the
\* greeting timer after the timers of the replay; the greeting timer sends the
\* greeting response.create when it fires, and only if the upstream connection
\* is then open.
C19_ReplayThenGreeting ==
  [][/\ UpstreamMessage(1, Ev("session.updated", ""))
        => ( /\ messageQueue'[1] = <<>>
             /\ CountType(upOut', "response.create") = 0
             /\ Len(timers'[1]) > Len(timers[1])
             /\ timers'[1][Len(timers'[1])] = GreetingTimer )
     /\ \A i \in 1..Len(timers[1]) :
          (timers[1][i] = GreetingTimer /\ TimerFire(1, i))
          => upOut' = IF openaiWs[1] = "OPEN"
                      THEN <<ResponseCreate("greeting", <<>>)>>
                      ELSE <<>>]_vars

\* A leg of the session has disconnected.
Disconnected(s) == clientSocket[s] = "CLOSED" \/ openaiWs[s] = "CLOSED"

\* C20: once a leg of the session has disconnected, isReady is never set again
\* and no client message handed to handleClientMessage sends a frame upstream.
C20_ClosedIsTerminal ==
  [][Disconnected(1)
     => ( /\ isReady'[1] => isReady[1]
          /\ routed'[1] # routed[1] => upOut' = <<>> )]_vars

\* C21: a client message that cannot be parsed is dropped: nothing is sent
\* upstream or to the client, the flags, the queue, the timers and both sockets
\* stay as they were, so that later messages are handled as if it had not come.
C21_MalformedDropped ==
  [][ClientMessage(1, Malformed)
     => ( /\ upOut' = <<>>
          /\ clOut' = <<>>
          /\ routed'[1] = routed[1]
          /\ SessionState(1)' = SessionState(1) )]_vars

\* A malformed message reached the message handler of a READY session, after a
\* message that was routed.
C21_Witness ==
  /\ clIn = Input(Malformed.type, "malformed")
  /\ routed[1] = <<1>>
  /\ isReady[1]
  /\ openaiWs[1] = "OPEN"

\* C22: an upstream event of a type the relay has no branch for is ignored:
\* nothing is sent to the client or upstream and the session state, sockets
\* included, stays as it was.
C22_UnknownEventIgnored ==
  [][\A e \in UpstreamEvents :
       ( /\ e.type \notin RecognizedEvents
         /\ UpstreamMessage(1, e) )
       => ( /\ upOut' = <<>>
            /\ clOut' = <<>>
            /\ SessionState(1)' = SessionState(1) )]_vars

\* An event of an unknown type was handled in a READY session during a response.
C22_Witness ==
  /\ clIn = Input("rate_limits.updated", "upstream")
  /\ isReady[1]
  /\ isResponding[1]
  /\ clientSocket[1] = "OPEN"

\* C28: a client set_language with a language routed in READY, whatever
\* isResponding and isMuted are, sends exactly one session.update with that
\* language upstream and exactly one language_set notification to the client,
\* and leaves the flags, the queue and the timers as they were.
C28_SetLanguageUnconditional ==
  [][( /\ Disposition(1, SetLanguage) = "routed"
       /\ ClientMessage(1, SetLanguage) )
     => ( /\ upOut' = <<[type |-> "session.update", language |-> SetLanguage.language]>>
          /\ clOut' = <<[type |-> "language_set", language |-> SetLanguage.language]>>
          /\ SessionState(1)' = SessionState(1) )]_vars

\* The language was changed while muted and during a response.
C28_Witness ==
  /\ clIn = Input("set_language", "routed")
  /\ upOut = <<[type |-> "session.update", language |-> "fr"]>>
  /\ isMuted[1]
  /\ isResponding[1]

\* The upstream voice-activity events.
VadEvents ==
  {e \in UpstreamEvents : e.type \in {"input_audio_buffer.speech_started",
                                       "input_audio_buffer.speech_stopped"}}

\* C29: each input_audio_buffer.speech_started is forwarded to the client as
\* exactly one vad_start and each speech_stopped as exactly one vad_stop, in the
\* callback of the event, whatever isMuted, isReady and isResponding are, and
\* the session state does not change.
C29_VadForwarded ==
  [][\A e \in VadEvents :
       ( /\ clientSocket[1] = "OPEN"
         /\ UpstreamMessage(1, e) )
       => ( /\ clOut' = <<[type |-> IF e.type = "input_audio_buffer.speech_started"
                                      THEN "vad_start" ELSE "vad_stop"]>>
            /\ upOut' = <<>>
            /\ SessionState(1)' = SessionState(1) )]_vars

\* A speech_stopped was forwarded in a muted session during a response.
C29_Witness ==
  /\ clOut = <<[type |-> "vad_stop"]>>
  /\ isMuted[1]
  /\ isResponding[1]

\* C30: started without an API key the process exits with code 1 without ever
\* listening, so that no connection is ever accepted; on SIGINT the running
\* process stops listening and exits with code 0.
C30_StartupAndShutdown ==
  [][/\ (process = "start" /\ Startup(""))
        => (process' = "exited" /\ exitCode' = 1)
     /\ (process' = "exited" /\ exitCode' = 1)
        => \A s \in Sessions : pc'[s] = "none" /\ clientSocket'[s] = "null"
     /\ (process = "running" /\ Sigint)
        => ( /\ process' = "exited"
             /\ exitCode' = 0
             /\ \A s \in Sessions : clientSocket'[s] \in {"null", "CLOSED"} )
     /\ process = "exited" => pc' = pc]_vars

\* The process was interrupted while a session was running.
C30_Witness ==
  /\ process = "exited"
  /\ exitCode = 0
  /\ pc[1] = "running"
  /\ clientSocket[1] = "CLOSED"

\* The part of a session that another session must leave alone: its flags, its
\* pending queue and its two connections.
Isolated(t) ==
  <<isReady[t], isResponding[t], isMuted[t], messageQueue[t], clientSocket[t], openaiWs[t]>>

\* C26: with two concurrent sessions, whatever happens in one session (client
\* message, upstream event, error, closure) leaves the flags, the pending queue
\* and both connections of the other session unchanged, and the process keeps
\* listening for new connections.
C26_SessionsIsolated ==
  [][\A s, t \in Sessions :
       (t # s /\ StepMulti(s))
       => (Isolated(t)' = Isolated(t) /\ process' = "running")]_vars

\* The same, leaving out the step in which the credential response of a
\* session is not JSON.
C26_IsolatedButForToken ==
  [][\A s, t \in Sessions :
       (t # s /\ StepMulti(s) /\ ~TokenSettled(s, "bad_json"))
       => (Isolated(t)' = Isolated(t) /\ process' = "running")]_vars

\* C27: in the revision that handles attachment, an attachment with no url and
\* no content or text, routed with both sockets open, yields an error
\* notification to the client and sends no frame of any type upstream.
C27_EmptyAttachmentNoUpstream ==
  [][\A m \in AttachmentMsgs :
       ( /\ m.type = "attachment"
         /\ AttachmentContent(m) = <<>>
         /\ isReady[1]
         /\ openaiWs[1] = "OPEN"
         /\ clientSocket[1] = "OPEN"
         /\ ClientMessage(1, m) )
       => ( /\ upOut' = <<>>
            /\ \E i \in 1..Len(clOut') : clOut'[i].type = "error" )]_vars

\* The part of C27 that the handler keeps: the client is told of the error, and
\* neither a conversation item nor a response trigger follows.
C27_EmptyAttachmentNoItem ==
  [][\A m \in AttachmentMsgs :
       ( /\ m.type = "attachment"
         /\ AttachmentContent(m) = <<>>
         /\ isReady[1]
         /\ openaiWs[1] = "OPEN"
         /\ clientSocket[1] = "OPEN"
         /\ ClientMessage(1, m) )
       => ( /\ \E i \in 1..Len(clOut') : clOut'[i].type = "error"
            /\ CountType(upOut', "conversation.item.create") = 0
            /\ timers' = timers )]_vars

\* The call a frame of toolLog belongs to.
CallOf(f) == IF f.type = "response.create" THEN f.item ELSE f.call_id
IsResultItem(f) == f.type = "conversation.item.create"
IsContinuation(f) == f.type = "response.create"

\* C23: in the tool-enabled revision, a continuation response.create of a
\* web_search call is sent upstream only after the function_call_output item
\* with the call_id of that call was sent, and every such item carries the
\* call_id of a web_search invocation whose search has settled.
C23_ResultBeforeContinuation ==
  LET log == toolLog[1]
  IN /\ \A j \in 1..Len(log) :
          IsContinuation(log[j])
          => \E i \in 1..(j - 1) : IsResultItem(log[i]) /\ log[i].call_id = log[j].item
     /\ \A i \in 1..Len(log) :
          IsResultItem(log[i])
          => \E k \in 1..Len(searches[1]) :
               /\ searches[1][k].call_id = log[i].call_id
               /\ searches[1][k].name = "web_search"
               /\ searches[1][k].state = "settled"
     /\ \A k \in 1..Len(searches[1]) :
          searches[1][k].state = "pending"
          => \A i \in 1..Len(log) : CallOf(log[i]) # searches[1][k].call_id

\* The result item of a call and then its continuation have been sent.
C23_Witness ==
  /\ Len(toolLog[1]) = 2
  /\ toolLog[1][1] = [type |-> "conversation.item.create", call_id |-> 1,
                      output |-> "Search results"]
  /\ toolLog[1][2].type = "response.create"
  /\ toolLog[1][2].item = 1

\* C24: in the tool-enabled revision tool calls are never interleaved: upstream
\* never receives the result item or the continuation trigger of one call
\* between the result item and the continuation trigger of another call.
C24_ToolCallsNotInterleaved ==
  LET log == toolLog[1]
  IN \A i, j \in 1..Len(log) :
       (i < j /\ IsResultItem(log[i]) /\ IsContinuation(log[j])
          /\ CallOf(log[i]) = CallOf(log[j]))
       => \A k \in (i + 1)..(j - 1) : CallOf(log[k]) = CallOf(log[i])

\* C25: in the tool-enabled revision every web_search invocation starts a
\* search, so that a result item follows, and the settlement of a search, with
\* the upstream socket open, submits exactly one result item for the call, which
\* carries the fallback text when the search failed.
C25_EveryCallAnswered ==
  [][/\ \A arguments \in ToolArguments :
          ( /\ Len(searches[1]) < MaxToolCalls
            /\ UpstreamMessage(1, ToolCall("web_search", arguments, Len(searches[1]) + 1)) )
          => searches'[1][Len(searches'[1])].state = "pending"
     /\ \A i \in 1..MaxToolCalls, outcome \in SearchOutcomes :
          (openaiWs[1] = "OPEN" /\ SearchSettled(1, i, outcome))
          => ( /\ upOut' = <<[type |-> "conversation.item.create", call_id |-> i,
                              output |-> IF outcome = "success" THEN "Search results"
                                         ELSE "fallback"]>>
               /\ Cardinality({k \in 1..Len(toolLog'[1]) :
                                 IsResultItem(toolLog'[1][k])
                                   /\ toolLog'[1][k].call_id = i}) = 1 )]_vars

\* The part of C25 that the handler keeps: a web_search invocation whose
\* arguments parse starts a search, and its settlement submits one result item.
C25_ParsedCallAnswered ==
  [][/\ \A arguments \in ToolArguments :
          ( /\ Len(searches[1]) < MaxToolCalls
            /\ ParseArguments(arguments) # "<throws>"
            /\ UpstreamMessage(1, ToolCall("web_search", arguments, Len(searches[1]) + 1)) )
          => searches'[1][Len(searches'[1])].state = "pending"
     /\ \A i \in 1..MaxToolCalls, outcome \in SearchOutcomes :
          (openaiWs[1] = "OPEN" /\ SearchSettled(1, i, outcome))
          => ( /\ upOut' = <<[type |-> "conversation.item.create", call_id |-> i,
                              output |-> IF outcome = "success" THEN "Search results"
                                         ELSE "fallback"]>>
               /\ Cardinality({k \in 1..Len(toolLog'[1]) :
                                 IsResultItem(toolLog'[1][k])
                                   /\ toolLog'[1][k].call_id = i}) = 1 )]_vars

\* C31: the greeting response.create is sent upstream at most once per session,
\* whatever the sequence of events, client set_language messages included.
C31_GreetingAtMostOnce == greetings[1] <= 1

\* C32: whenever isReady is true between two callbacks the pending queue is
\* empty: the replay of session.updated drains the whole queue, also when the
\* routing of a replayed message throws.
C32_ReadyQueueEmpty == isReady[1] => messageQueue[1] = <<>>

\* The part of C32 that the handler keeps: a replay in which no routing throws
\* leaves the queue empty.
C32_ReplayDrainsUnlessThrow ==
  [][(isReady'[1] /\ ~Replay(Effects(1), openaiWs[1], isResponding[1]).threw
        /\ \E e \in UpstreamEvents : e.type = "session.updated" /\ UpstreamMessage(1, e))
     => messageQueue'[1] = <<>>]_vars

\* C33: isResponding is true exactly when upstream has emitted response.created
\* without a later response.done or response.cancelled, so that an upstream
\* error during a response does not open the gate of text_message while the
\* response is still generated.
C33_RespondingTracksUpstream == isResponding[1] <=> upActive[1]

\* The part of C33 that the handler keeps: the flag leaves the upstream truth
\* only by an upstream error event.
C33_TracksButForError ==
  [][(isResponding'[1] # upActive'[1])
     => \/ isResponding[1] # upActive[1]
        \/ \E e \in UpstreamEvents : e.type = "error" /\ UpstreamMessage(1, e)]_vars

\* The upstream events that end RESPONDING.
EndsResponding == {"response.cancelled", "response.done", "error"}

\* C34: a routed client cancel does not itself clear RESPONDING: isResponding
\* stays true after it, a text_message routed while it is true is rejected with
\* a warning, and response.cancelled, response.done and error each clear it.
C34_CancelKeepsResponding ==
  [][/\ (isResponding[1] /\ isReady[1] /\ ClientMessage(1, Cancel))
        => isResponding'[1]
     /\ (isResponding[1] /\ isReady[1] /\ openaiWs[1] = "OPEN" /\ clientSocket[1] = "OPEN"
           /\ ClientMessage(1, Text))
        => (isResponding'[1] /\ upOut' = <<>> /\ clOut' = <<[type |-> "warning"]>>)
     /\ \A e \in UpstreamEvents :
          (isResponding[1] /\ e.type \in EndsResponding /\ UpstreamMessage(1, e))
          => ~isResponding'[1]]_vars

\* A cancel was routed while RESPONDING and sent upstream, and the flag is
\* still set.
C34_Witness ==
  /\ clIn = Input("cancel", "routed")
  /\ upOut = <<[type |-> "response.cancel"]>>
  /\ isResponding[1]
  /\ isReady[1]

\* C35: when the settle delay of an accepted request elapses, response.create
\* is sent only if the upstream socket is open and isResponding is false at
\* that moment; otherwise the trigger is dropped: nothing is sent upstream, the
\* client gets no notification, and no timer is started to retry.
C35_SettleRechecks ==
  [][\A i \in 1..Len(timers[1]) :
       (timers[1][i].kind = "settle" /\ TimerFire(1, i))
       => ( /\ upOut' = IF openaiWs[1] = "OPEN" /\ ~isResponding[1]
                        THEN <<[type |-> "response.create", why |-> "settle",
                                item |-> timers[1][i].item]>>
                        ELSE <<>>
            /\ clOut' = <<>>
            /\ Len(timers'[1]) = Len(timers[1]) - 1
            /\ \A j \in 1..Len(timers'[1]) :
                 \E k \in 1..Len(timers[1]) : k # i /\ timers[1][k] = timers'[1][j] )]_vars

\* A timer callback has just run with both sockets open and sent nothing,
\* because a response is in progress: a settle trigger was dropped.
C35_Witness ==
  /\ clIn = NoInput
  /\ upOut = <<>>
  /\ openaiWs[1] = "OPEN"
  /\ clientSocket[1] = "OPEN"
  /\ isResponding[1]
  /\ isReady[1]
  /\ inFlight[1] = 0

\* C36: no frame is passed to the upstream socket unless it is open: every send
\* of handleClientMessage, of the settle and greeting timers and of the
\* tool-result callback happens while the upstream socket is OPEN, whatever the
\* interleaving with the two closes.
C36_SendsOnlyWhileOpen == upTried # <<>> => openaiWs[1] = "OPEN"

\* The part of C36 that the handlers keep: every callback but the tool-result
\* callback sends only while the upstream socket is open.
C36_GuardedButForToolResult ==
  [][(upTried' # <<>> /\ openaiWs'[1] # "OPEN")
     => \E i \in 1..MaxToolCalls, outcome \in SearchOutcomes : SearchSettled(1, i, outcome)]_vars

\* C37: a text_message whose text is empty or absent is ignored entirely when
\* it is routed, even when it carries files with text: no frame is sent
\* upstream, no notification is sent to the client, and the state of the
\* session does not change.
C37_EmptyTextIgnored ==
  [][(Disposition(1, TextEmpty) = "routed" /\ ClientMessage(1, TextEmpty))
     => ( /\ upOut' = <<>>
          /\ clOut' = <<>>
          /\ SessionState(1)' = SessionState(1)
          /\ routed'[1] = Append(routed[1], nClient'[1]) )]_vars

\* A text_message was routed with both sockets open and no response in
\* progress, and nothing was sent to either side: its text was empty.
C37_Witness ==
  /\ clIn = Input("text_message", "routed")
  /\ upOut = <<>>
  /\ clOut = <<>>
  /\ openaiWs[1] = "OPEN"
  /\ clientSocket[1] = "OPEN"
  /\ ~isResponding[1]
  /\ timers[1] = <<>>

\* C38: once the upstream connection has closed, the pending queue of the
\* session never grows: a client message that still arrives is not appended to
\* the queue.
C38_NoQueueingAfterUpstreamClose ==
  [][openaiWs[1] = "CLOSED" => Len(messageQueue'[1]) <= Len(messageQueue[1])]_vars

\* The upstream events that assign isResponding.
AssignsResponding == {"response.created", "response.done", "response.cancelled", "error"}

\* A queued mute or unmute is routed by the replay of this step.
ReplaysMute ==
  /\ clIn'.how = "upstream"
  /\ Len(routed'[1]) > Len(routed[1])
  /\ \E k \in 1..Len(messageQueue[1]) : messageQueue[1][k].type \in {"mute", "unmute"}

\* C39: mute and response-in-progress are orthogonal: isMuted changes only when
\* a client mute or unmute is routed, directly or from the queue, and by no
\* other upstream event, timer or closure; isResponding changes only by the
\* upstream events response.created, response.done, response.cancelled and
\* error and by the upstream close, never by a client message.
C39_FlagsOrthogonal ==
  [][/\ isMuted'[1] # isMuted[1]
        => \/ clIn' \in {Input("mute", "routed"), Input("unmute", "routed")}
           \/ ReplaysMute
     /\ isResponding'[1] # isResponding[1]
        => \/ \E e \in UpstreamEvents : e.type \in AssignsResponding /\ UpstreamMessage(1, e)
           \/ UpstreamClose(1)
     /\ clIn'.how \in {"routed", "queued", "dropped", "malformed", "lost"}
        => isResponding'[1] = isResponding[1]]_vars

\* A mute was routed while a response was in progress: the session is muted
\* and still RESPONDING.
C39_Witness ==
  /\ clIn = Input("mute", "routed")
  /\ clOut = <<[type |-> "muted", muted |-> TRUE]>>
  /\ isMuted[1]
  /\ isResponding[1]

====
